---- MODULE Spec2Model ----
(***************************************************************************)
(* A model of download.py: the URL heuristic is_url_pdf, the name          *)
(* normaliser clean_name, the bookmark extractor (the loop over the        *)
(* anchors of the parsed export) and the download driver (the loop over    *)
(* the sorted folders and their bookmarks).                                *)
(*                                                                         *)
(* Python strings are sequences of one-character strings; a response body  *)
(* is a sequence of bytes, each either an ASCII character or the byte      *)
(* 0xFF, which no UTF-8 text contains.  The path separator is the POSIX    *)
(* one, "/".                                                               *)
(***************************************************************************)
EXTENDS Integers, Sequences, FiniteSets, TLC

VARIABLES
    pc,             \* position of the program
    url,            \* is_url_pdf: the argument
    url_pdf,        \* is_url_pdf: the value returned
    name,           \* clean_name: the argument
    cleaned,        \* clean_name(name)
    recleaned,      \* clean_name(clean_name(name))
    parsed_html,    \* the parsed export: nodes in document order
    ref,            \* index in find_all("a") of the next anchor
    bookmarks,      \* folder key -> sequence of <<title, link>>
    args,           \* the parsed command line
    dirs,           \* the file system: the paths that are directories
    files,          \* the file system: path -> bytes of each regular file
    sorted_folders, \* sorted(bookmarks.keys())
    fi,             \* index in sorted_folders of the current folder
    bi,             \* index in bookmarks[folder] of the current bookmark
    on_bookmark,    \* the counter printed with each download
    errors,         \* the list of (msg, link, title)
    r,              \* the response being handled, NoResponse if none
    raised,         \* the exception that ended the run, "" if none
    gets,           \* history: the GET requests issued, in order
    writes,         \* history: the destination paths written, in order
    listed          \* history: the lines the listing mode printed

vars == <<pc, url, url_pdf, name, cleaned, recleaned, parsed_html, ref,
          bookmarks, args, dirs, files, sorted_folders, fi, bi,
          on_bookmark, errors, r, raised, gets, writes, listed>>

(***************************************************************************)
(* Bounds of the model.                                                    *)
(***************************************************************************)
MaxUrlPieces == 4
MaxNameLen == 5
MaxNodes == 5
MaxBookmarks == 3
MaxExisting == 1

(***************************************************************************)
(* Strings.                                                                *)
(***************************************************************************)
sep == "/"

Whitespace == {" ", "\t", "\n"}

EndsWith(s, suffix) ==
    /\ Len(s) >= Len(suffix)
    /\ SubSeq(s, Len(s) - Len(suffix) + 1, Len(s)) = suffix

StartsWith(s, prefix) ==
    /\ Len(s) >= Len(prefix)
    /\ SubSeq(s, 1, Len(prefix)) = prefix

\* str.split / re.split on single-character delimiters: the fragments
\* between the delimiters, empty ones included.
RECURSIVE SplitFrom(_, _, _, _, _)
SplitFrom(s, delims, i, cur, acc) ==
    IF i > Len(s) THEN Append(acc, cur)
    ELSE IF s[i] \in delims
         THEN SplitFrom(s, delims, i + 1, <<>>, Append(acc, cur))
         ELSE SplitFrom(s, delims, i + 1, Append(cur, s[i]), acc)

Split(s, delims) == SplitFrom(s, delims, 1, <<>>, <<>>)

RECURSIVE Flatten(_)
Flatten(ss) == IF ss = <<>> THEN <<>> ELSE Head(ss) \o Flatten(Tail(ss))

\* separator.join(parts)
RECURSIVE Join(_, _)
Join(separator, parts) ==
    IF parts = <<>> THEN <<>>
    ELSE IF Len(parts) = 1 THEN parts[1]
    ELSE parts[1] \o <<separator>> \o Join(separator, Tail(parts))

Reverse(s) == [i \in 1..Len(s) |-> s[Len(s) + 1 - i]]

(***************************************************************************)
(* is_url_pdf                                                              *)
(***************************************************************************)
TypePdf == <<"t", "y", "p", "e", "=", "p", "d", "f">>
DotPdf == <<".", "p", "d", "f">>
SlashPdf == <<"/", "p", "d", "f">>

\* url.split("/")[-1]
LastSegment(u) == LET segs == Split(u, {"/"}) IN segs[Len(segs)]

UrlSplitOnQuestionOnly(u) == Split(LastSegment(u), {"?"})
url_split(u) == Split(LastSegment(u), {"?", "&"})

is_url_pdf(u) ==
    \/ \E k \in 1..Len(url_split(u)) :
          \/ url_split(u)[k] = TypePdf
          \/ EndsWith(url_split(u)[k], DotPdf)
    \/ EndsWith(u, SlashPdf)

(***************************************************************************)
(* clean_name                                                              *)
(***************************************************************************)
RECURSIVE LStrip(_)
LStrip(s) ==
    IF s # <<>> /\ Head(s) \in Whitespace THEN LStrip(Tail(s)) ELSE s

strip(s) == Reverse(LStrip(Reverse(LStrip(s))))

\* The end of the longest run of characters of class that starts at i
\* (i - 1 when s[i] is not in class).
RECURSIVE RunEnd(_, _, _)
RunEnd(s, class, i) ==
    IF i <= Len(s) /\ s[i] \in class THEN RunEnd(s, class, i + 1) ELSE i - 1

\* re.sub("[\s/]*/[\s/]*", "-", s): scanning from the left, the pattern
\* matches at i exactly when the run of whitespace and separators that
\* starts at i holds a separator, and then it matches the whole run.
RECURSIVE SubPathSepFrom(_, _)
SubPathSepFrom(s, i) ==
    IF i > Len(s) THEN <<>>
    ELSE LET e == RunEnd(s, Whitespace \cup {sep}, i) IN
         IF \E k \in i..e : s[k] = sep
         THEN <<"-">> \o SubPathSepFrom(s, e + 1)
         ELSE <<s[i]>> \o SubPathSepFrom(s, i + 1)

sub_path_sep(s) == SubPathSepFrom(s, 1)

\* re.sub("[\s,]+", repl, s)
RECURSIVE SubSpaceCommaFrom(_, _, _)
SubSpaceCommaFrom(s, repl, i) ==
    IF i > Len(s) THEN <<>>
    ELSE LET e == RunEnd(s, Whitespace \cup {","}, i) IN
         IF e >= i
         THEN <<repl>> \o SubSpaceCommaFrom(s, repl, e + 1)
         ELSE <<s[i]>> \o SubSpaceCommaFrom(s, repl, i + 1)

SubSpaceCommaBySpace(s) == SubSpaceCommaFrom(s, " ", 1)
sub_space_comma(s) == SubSpaceCommaFrom(s, "_", 1)

clean_name(s) == sub_space_comma(sub_path_sep(strip(s)))

(***************************************************************************)
(* Variable groups, and the values of the groups a specification leaves    *)
(* alone.                                                                  *)
(***************************************************************************)
urlVars == <<url, url_pdf>>
nameVars == <<name, cleaned, recleaned>>
extractVars == <<parsed_html, ref>>
driverVars == <<args, dirs, files, sorted_folders, fi, bi,
                on_bookmark, errors, r, raised, gets, writes, listed>>

UrlIdle == url = <<>> /\ url_pdf = FALSE
NameIdle == name = <<>> /\ cleaned = <<>> /\ recleaned = <<>>
ExtractIdle == parsed_html = <<>> /\ ref = 1
BookmarksIdle == bookmarks = <<>>
DriverIdle ==
    /\ args = [try_all |-> FALSE, show_pdfs |-> FALSE, show_non_pdfs |-> FALSE,
               ignore_errors |-> FALSE, dont_verify |-> FALSE]
    /\ dirs = {}
    /\ files = <<>>
    /\ sorted_folders = <<>>
    /\ fi = 1
    /\ bi = 1
    /\ on_bookmark = 0
    /\ errors = <<>>
    /\ r = [kind |-> "none"]
    /\ raised = ""
    /\ gets = <<>>
    /\ writes = <<>>
    /\ listed = <<>>

\* The strings made of at most n pieces.
Concats(pieces, n) ==
    {Flatten(ps) : ps \in UNION {[1..k -> pieces] : k \in 0..n}}

(***************************************************************************)
(* SpecUrl: is_url_pdf applied to one URL.                                 *)
(***************************************************************************)
UrlA_pdf == <<"h", "t", "t", "p", ":", "/", "/", "x", ".", "c", "o", "m", "/", "a", ".", "p", "d", "f">>
UrlA_pdf_x1 == <<"h", "t", "t", "p", ":", "/", "/", "x", ".", "c", "o", "m", "/", "a", ".", "p", "d", "f", "?", "x", "=", "1">>
UrlView_type_pdf == <<"h", "t", "t", "p", ":", "/", "/", "x", ".", "c", "o", "m", "/", "v", "i", "e", "w", "?", "t", "y", "p", "e", "=", "p", "d", "f">>
UrlA_html == <<"h", "t", "t", "p", ":", "/", "/", "x", ".", "c", "o", "m", "/", "a", ".", "h", "t", "m", "l">>
UrlView_pdf == <<"h", "t", "t", "p", ":", "/", "/", "x", ".", "c", "o", "m", "/", "v", "i", "e", "w", "/", "p", "d", "f">>

ExampleUrls == {UrlA_pdf, UrlA_pdf_x1, UrlView_type_pdf, UrlA_html, UrlView_pdf}

UrlPieces == {<<"/">>, <<"?">>, <<"&">>, TypePdf, DotPdf, <<"p", "d", "f">>,
              <<"a">>, <<".", "h", "t", "m", "l">>}

UrlInputs == Concats(UrlPieces, MaxUrlPieces) \cup ExampleUrls

InitUrl ==
    /\ pc = "url"
    /\ url \in UrlInputs
    /\ url_pdf = FALSE
    /\ NameIdle /\ ExtractIdle /\ BookmarksIdle /\ DriverIdle

Classify ==
    /\ pc = "url"
    /\ url_pdf' = is_url_pdf(url)
    /\ pc' = "classified"
    /\ UNCHANGED <<url, nameVars, extractVars, bookmarks, driverVars>>

NextUrl == Classify

SpecUrl == InitUrl /\ [][NextUrl]_vars

(***************************************************************************)
(* SpecName: clean_name applied to a name, and to the result.              *)
(***************************************************************************)
NameChars == {" ", ",", sep, "-", "_", "a"}

MyDocsSub == <<"M", "y", " ", "D", "o", "c", "s", " ", "/", " ", "S", "u", "b">>

NameInputs ==
    UNION {[1..k -> NameChars] : k \in 0..MaxNameLen}
        \cup {MyDocsSub, <<"\t", "a", "\n", sep, " ", "b", ",", "\n">>}

InitName ==
    /\ pc = "name"
    /\ name \in NameInputs
    /\ cleaned = <<>>
    /\ recleaned = <<>>
    /\ UrlIdle /\ ExtractIdle /\ BookmarksIdle /\ DriverIdle

CleanOnce ==
    /\ pc = "name"
    /\ cleaned' = clean_name(name)
    /\ pc' = "cleaned"
    /\ UNCHANGED <<name, recleaned, urlVars, extractVars, bookmarks, driverVars>>

CleanAgain ==
    /\ pc = "cleaned"
    /\ recleaned' = clean_name(cleaned)
    /\ pc' = "recleaned"
    /\ UNCHANGED <<name, cleaned, urlVars, extractVars, bookmarks, driverVars>>

NextName == CleanOnce \/ CleanAgain

SpecName == InitName /\ [][NextName]_vars

(***************************************************************************)
(* C6.  is_url_pdf(u) is true exactly when u ends with "/pdf" or the text  *)
(* of u after its last "/" (all of u if it has none), cut at every "?" and *)
(* "&", has a fragment that equals "type=pdf" or ends with ".pdf"; a.pdf,  *)
(* a.pdf?x=1, view?type=pdf and view/pdf are PDFs and a.html is not.       *)
(***************************************************************************)
\* The position of the last "/" of u, 0 if it has none.
LastSlash(u) ==
    CHOOSE k \in 0..Len(u) :
        /\ k = 0 \/ u[k] = "/"
        /\ \A j \in (k + 1)..Len(u) : u[j] # "/"

\* u[i..j] is a fragment: it lies after the last "/", holds no "?" or "&",
\* and is bounded on each side by one of them or by the end of the segment.
IsFragment(u, i, j) ==
    /\ i > LastSlash(u)
    /\ i - 1 = LastSlash(u) \/ u[i - 1] \in {"?", "&"}
    /\ j = Len(u) \/ u[j + 1] \in {"?", "&"}
    /\ \A m \in i..j : u[m] \notin {"?", "&"}

LooksLikePdf(u) ==
    \/ EndsWith(u, SlashPdf)
    \/ \E i \in 1..(Len(u) + 1) : \E j \in (i - 1)..Len(u) :
          /\ IsFragment(u, i, j)
          /\ SubSeq(u, i, j) = TypePdf \/ EndsWith(SubSeq(u, i, j), DotPdf)

C6_UrlHeuristic ==
    pc = "classified" =>
        /\ url_pdf <=> LooksLikePdf(url)
        /\ url \in {UrlA_pdf, UrlA_pdf_x1, UrlView_type_pdf, UrlView_pdf} => url_pdf
        /\ url = UrlA_html => ~url_pdf

C6_Witness ==
    /\ pc = "classified"
    /\ url_pdf
    /\ ~EndsWith(url, SlashPdf)
    /\ \E i \in 1..Len(url) : url[i] = "/"
    /\ \E i \in 1..Len(url) : url[i] = "&"
    /\ ~EndsWith(url, DotPdf)

(***************************************************************************)
(* C7.  clean_name is idempotent: cleaning a cleaned name changes nothing. *)
(***************************************************************************)
C7_CleanNameIdempotent == pc = "recleaned" => recleaned = cleaned

C7_Witness ==
    /\ pc = "recleaned"
    /\ cleaned # name
    /\ cleaned # <<>>
    /\ \E i \in 1..Len(name) : name[i] = sep
    /\ \E i \in 1..Len(name) : name[i] = ","
    /\ \E i \in 1..Len(name) : name[i] = " "
    /\ \E i \in 1..Len(cleaned) : cleaned[i] = "_"
    /\ \E i \in 1..Len(cleaned) : cleaned[i] = "-"

(***************************************************************************)
(* The bookmark extractor.  The parsed export is the sequence of its       *)
(* nodes in document order, each with its tag, its depth below the         *)
(* BeautifulSoup object (node 0, depth 0), its text and its href.          *)
(***************************************************************************)
Node(tag, depth, text, href) ==
    [tag |-> tag, depth |-> depth, text |-> text, href |-> href]

LeafTags == {"h3", "a", "#text"}
ContainerTags == {"dl", "dt"}

\* node.parent
RECURSIVE ParentFrom(_, _, _)
ParentFrom(doc, i, j) ==
    IF j = 0 THEN 0
    ELSE IF doc[j].depth = doc[i].depth - 1 THEN j
    ELSE ParentFrom(doc, i, j - 1)

Parent(doc, i) == ParentFrom(doc, i, i - 1)

\* next(node.children), for a node that has children
FirstChild(doc, p) == p + 1

first_sibling(doc, d) == FirstChild(doc, Parent(doc, d))

\* The loop over ref.parents, from the parent p up to the BeautifulSoup
\* object: the folder names in the order the loop appends them.
RECURSIVE FoldersFrom(_, _)
FoldersFrom(doc, p) ==
    IF p = 0 THEN <<>>
    ELSE IF doc[p].tag = "dl" /\ doc[first_sibling(doc, p)].tag = "h3"
         THEN <<clean_name(doc[first_sibling(doc, p)].text)>>
                  \o FoldersFrom(doc, Parent(doc, p))
         ELSE FoldersFrom(doc, Parent(doc, p))

FoldersLeafToRoot(doc, a) == FoldersFrom(doc, Parent(doc, a))
folders_of(doc, a) == Reverse(FoldersFrom(doc, Parent(doc, a)))

\* parsed_html.find_all("a")
find_all_a(doc) == SelectSeq([i \in 1..Len(doc) |-> i], LAMBDA i : doc[i].tag = "a")

\* bookmarks[key].append(entry), bookmarks a defaultdict(list)
DictAppend(dict, key, entry) ==
    IF key \in DOMAIN dict
    THEN [dict EXCEPT ![key] = Append(@, entry)]
    ELSE [k \in DOMAIN dict \cup {key} |->
             IF k = key THEN <<entry>> ELSE dict[k]]

EmptyDict == [k \in {} |-> <<>>]

\* The trees of n nodes: a leaf has no children, and a node is at most one
\* level below the node before it.
NodeTexts == << <<"A">>, <<" ", "B", " ">>, <<"C", " ", "/", " ", "D">>,
                <<"D", "o", "c", "1">>, <<"D", "o", "c", "2">> >>
NodeHrefs == << <<"x", "/", "a", ".", "p", "d", "f">>,
                <<"x", "/", "b", ".", "h", "t", "m", "l">> >>
TextOf(i) == NodeTexts[(i % Len(NodeTexts)) + 1]
HrefOf(i) == NodeHrefs[(i % Len(NodeHrefs)) + 1]

MaxDepthAfter(t) ==
    IF t = <<>> THEN 1
    ELSE IF t[Len(t)].tag \in LeafTags THEN t[Len(t)].depth
    ELSE t[Len(t)].depth + 1

RECURSIVE TreesOf(_)
TreesOf(n) ==
    IF n = 0 THEN {<<>>}
    ELSE {Append(x[1], Node(x[2], x[3], TextOf(n), HrefOf(n))) :
             x \in {y \in TreesOf(n - 1) \X (LeafTags \cup ContainerTags) \X (1..n) :
                       y[3] <= MaxDepthAfter(y[1])}}

\* Folder A holding Doc1 and the nested folder B holding Doc2, as a browser
\* writes it and html.parser reads it: dt and p are never closed, and a
\* line break separates each heading from its list.
TextA == <<"A">>
TextB == <<"B">>
Doc1 == <<"D", "o", "c", "1">>
Doc2 == <<"D", "o", "c", "2">>
HrefA == <<"h", "t", "t", "p", ":", "/", "/", "x", "/", "a", ".", "p", "d", "f">>
HrefB == <<"h", "t", "t", "p", ":", "/", "/", "x", "/", "b", ".", "h", "t", "m", "l">>
NewLine == <<"\n">>

ExportedTree ==
    << Node("dl", 1, <<>>, <<>>), Node("p", 2, <<>>, <<>>),
       Node("dt", 3, <<>>, <<>>), Node("h3", 4, TextA, <<>>),
       Node("#text", 4, NewLine, <<>>), Node("dl", 4, <<>>, <<>>),
       Node("p", 5, <<>>, <<>>), Node("dt", 6, <<>>, <<>>),
       Node("a", 7, Doc1, HrefA), Node("#text", 7, NewLine, <<>>),
       Node("dt", 7, <<>>, <<>>), Node("h3", 8, TextB, <<>>),
       Node("#text", 8, NewLine, <<>>), Node("dl", 8, <<>>, <<>>),
       Node("p", 9, <<>>, <<>>), Node("dt", 10, <<>>, <<>>),
       Node("a", 11, Doc2, HrefB) >>

\* The same folders with nothing between a heading and its list.
CompactTree ==
    << Node("h3", 1, TextA, <<>>), Node("dl", 1, <<>>, <<>>),
       Node("a", 2, Doc1, HrefA), Node("dt", 2, <<>>, <<>>),
       Node("h3", 3, TextB, <<>>), Node("dl", 3, <<>>, <<>>),
       Node("a", 4, Doc2, HrefB) >>

InitExtract ==
    /\ pc = "extract"
    /\ \/ \E n \in 0..MaxNodes : parsed_html \in TreesOf(n)
       \/ parsed_html \in {ExportedTree, CompactTree}
    /\ ref = 1
    /\ bookmarks = EmptyDict
    /\ UrlIdle /\ NameIdle /\ DriverIdle

\* One pass of the loop over the anchors (lines 59-71).
ExtractAnchor ==
    /\ pc = "extract"
    /\ ref <= Len(find_all_a(parsed_html))
    /\ LET a == find_all_a(parsed_html)[ref]
           title == clean_name(parsed_html[a].text)
           link == parsed_html[a].href
           folders == folders_of(parsed_html, a)
       IN bookmarks' = DictAppend(bookmarks, Join(sep, folders), <<title, link>>)
    /\ ref' = ref + 1
    /\ UNCHANGED <<pc, parsed_html, urlVars, nameVars, driverVars>>

\* The loop ends: the index is complete.
ExtractDone ==
    /\ pc = "extract"
    /\ ref > Len(find_all_a(parsed_html))
    /\ pc' = "extracted"
    /\ UNCHANGED <<parsed_html, ref, bookmarks, urlVars, nameVars, driverVars>>

NextExtract == ExtractAnchor \/ ExtractDone

SpecExtract == InitExtract /\ [][NextExtract]_vars

(***************************************************************************)
(* C5.  As claimed: the folder chain of an anchor is the normalised texts  *)
(* of the h3 nodes that immediately precede, as siblings, the dl ancestors *)
(* of the anchor, root to leaf; the (title, url) pair goes under the chain *)
(* joined with the separator, the entries of a key in document order; for  *)
(* folder A holding Doc1 and nested folder B holding Doc2 the keys are "A" *)
(* and "A/B", one entry each.                                              *)
(* As amended (C5_ExtractorIndex): the h3 node is the first child of the   *)
(* parent of the dl ancestor, whatever lies between it and the dl.         *)
(***************************************************************************)
IsAncestor(doc, p, i) ==
    /\ p < i
    /\ doc[p].depth < doc[i].depth
    /\ \A m \in (p + 1)..i : doc[m].depth > doc[p].depth

\* j and d have the same parent, j at or before d.
SameParent(doc, j, d) ==
    /\ j <= d
    /\ doc[j].depth = doc[d].depth
    /\ \A m \in j..d : doc[m].depth >= doc[d].depth

IsFirstOfParent(doc, j, d) ==
    /\ SameParent(doc, j, d)
    /\ \A k \in 1..(j - 1) : ~SameParent(doc, k, d)

IsJustBefore(doc, j, d) ==
    /\ j < d
    /\ SameParent(doc, j, d)
    /\ \A k \in (j + 1)..(d - 1) : ~SameParent(doc, k, d)

Ascending(S) ==
    CHOOSE s \in [1..Cardinality(S) -> S] :
        \A i \in 1..Cardinality(S) : \A j \in 1..Cardinality(S) :
            i < j => s[i] < s[j]

\* The dl ancestors of a that have a heading, Heading(doc, h, d) saying
\* that h is the node where the heading of d is looked for.
HeadedLists(doc, a, Heading(_, _, _)) ==
    {d \in 1..Len(doc) :
        /\ IsAncestor(doc, d, a)
        /\ doc[d].tag = "dl"
        /\ \E h \in 1..Len(doc) : Heading(doc, h, d) /\ doc[h].tag = "h3"}

HeadingOf(doc, d, Heading(_, _, _)) ==
    CHOOSE h \in 1..Len(doc) : Heading(doc, h, d)

ChainKey(doc, a, Heading(_, _, _)) ==
    LET ds == Ascending(HeadedLists(doc, a, Heading))
    IN Join(sep, [k \in 1..Len(ds) |->
                     clean_name(doc[HeadingOf(doc, ds[k], Heading)].text)])

AnchorsOf(doc) == {i \in 1..Len(doc) : doc[i].tag = "a"}

IndexIs(doc, index, Heading(_, _, _)) ==
    /\ DOMAIN index = {ChainKey(doc, a, Heading) : a \in AnchorsOf(doc)}
    /\ \A key \in DOMAIN index :
          LET as == Ascending({a \in AnchorsOf(doc) :
                                  ChainKey(doc, a, Heading) = key})
          IN index[key] =
                 [k \in 1..Len(as) |->
                     <<clean_name(doc[as[k]].text), doc[as[k]].href>>]

\* The sibling just before d, 0 if there is none.
RECURSIVE PreviousFrom(_, _, _)
PreviousFrom(doc, i, j) ==
    IF j = 0 \/ doc[j].depth < doc[i].depth THEN 0
    ELSE IF doc[j].depth = doc[i].depth THEN j
    ELSE PreviousFrom(doc, i, j - 1)

PreviousSibling(doc, d) == PreviousFrom(doc, d, d - 1)

KeyA == <<"A">>
KeyAB == <<"A", sep, "B">>

FolderExample ==
    parsed_html \in {ExportedTree, CompactTree} =>
        /\ DOMAIN bookmarks = {KeyA, KeyAB}
        /\ bookmarks[KeyA] = << <<Doc1, HrefA>> >>
        /\ bookmarks[KeyAB] = << <<Doc2, HrefB>> >>

C5_AsClaimed ==
    pc = "extracted" =>
        /\ IndexIs(parsed_html, bookmarks, IsJustBefore)
        /\ FolderExample

C5_ExtractorIndex ==
    pc = "extracted" =>
        /\ IndexIs(parsed_html, bookmarks, IsFirstOfParent)
        /\ FolderExample

\* A nested folder whose heading is the first child of the parent of its
\* list without being the sibling just before the list.
C5_Witness ==
    /\ pc = "extracted"
    /\ \E key \in DOMAIN bookmarks : \E i \in 1..Len(key) : key[i] = sep
    /\ \E a \in AnchorsOf(parsed_html) : \E d \in 1..Len(parsed_html) :
          /\ IsAncestor(parsed_html, d, a)
          /\ parsed_html[d].tag = "dl"
          /\ PreviousSibling(parsed_html, d) # first_sibling(parsed_html, d)
          /\ parsed_html[first_sibling(parsed_html, d)].tag = "h3"

(***************************************************************************)
(* The download driver.                                                    *)
(***************************************************************************)
\* Characters in the order of their code points, for sorted().
CodePoints == <<"\t", "\n", " ", ",", "-", ".", "/", "0", "1", "2", "A", "B",
                "C", "D", "M", "S", "_", "a", "b", "c", "o", "s", "u", "y">>
Ord(c) == CHOOSE i \in 1..Len(CodePoints) : CodePoints[i] = c

RECURSIVE StrLess(_, _)
StrLess(a, b) ==
    IF a = <<>> THEN b # <<>>
    ELSE IF b = <<>> THEN FALSE
    ELSE IF Head(a) = Head(b) THEN StrLess(Tail(a), Tail(b))
    ELSE Ord(Head(a)) < Ord(Head(b))

\* sorted(keys)
RECURSIVE sorted(_)
sorted(S) ==
    IF S = {} THEN <<>>
    ELSE LET m == CHOOSE x \in S : \A y \in S : x = y \/ StrLess(x, y)
         IN <<m>> \o sorted(S \ {m})

\* os.path.join(a, b)
join(a, b) ==
    IF b # <<>> /\ Head(b) = sep THEN b
    ELSE IF a = <<>> \/ a[Len(a)] = sep THEN a \o b
    ELSE a \o <<sep>> \o b

\* os.path.isdir(path): a trailing separator names the same directory
IsDirAlways(d, path) == TRUE
isdir(d, path) ==
    IF path # <<>> /\ path[Len(path)] = sep
    THEN SubSeq(path, 1, Len(path) - 1) \in d
    ELSE path \in d

\* os.path.isfile(path)
IsFileNever(f, path) == FALSE
isfile(f, path) == path \in DOMAIN f

\* os.makedirs(path): the directory and the missing ones above it
makedirs(d, path) ==
    d \cup {SubSeq(path, 1, k - 1) : k \in {j \in 2..Len(path) : path[j] = sep}}
      \cup {path}

\* open(path, "wb").write(content)
write_file(f, path, content) ==
    [q \in DOMAIN f \cup {path} |-> IF q = path THEN content ELSE f[q]]

Output == <<"o", "u", "t">>
Pdf == <<".", "p", "d", "f">>

subfolder_path(folder) == join(Output, folder)
pdf_path(folder, title) == join(subfolder_path(folder), title \o Pdf)

\* Line 94: the bookmark is passed over because of its URL.
SkipsWithoutTryAllFlag(a, link) == ~is_url_pdf(link)
skips_url(a, link) == ~a.try_all /\ ~is_url_pdf(link)

\* Line 74: the listing mode.
listing(a) == a.show_pdfs \/ a.show_non_pdfs

\* Line 103: record_error raises instead of recording.
RaisesNever(a) == FALSE
raises(a) == ~a.ignore_errors

\* The responses of requests.get.  kind "exception": the call raised;
\* otherwise a status, the headers and the body.
NoResponse == [kind |-> "none"]
Invalid == "0xFF"
Doctype == <<"<", "!", "D", "O", "C", "T", "Y", "P", "E", " ", "h", "t", "m", "l", ">">>
BodyHtml == Doctype \o <<"<", "h", "t", "m", "l", ">">>
BodyDoctypeBinary == Doctype \o <<Invalid>>
BodyPdfText == <<"%", "P", "D", "F", "-", "1">>

TextHtml == <<"t", "e", "x", "t", "/", "h", "t", "m", "l">>
ApplicationPdf == <<"a", "p", "p", "l", "i", "c", "a", "t", "i", "o", "n", "/", "p", "d", "f", ";", "q", "=", "1">>
TextHtmlNamePdf == <<"t", "e", "x", "t", "/", "h", "t", "m", "l", ";", "n", "=", "a", ".", "p", "d", "f">>
NoHeader == "absent"

Response(status, content_type, content) ==
    [kind |-> "response", status |-> status, content_type |-> content_type,
     content |-> content]

Responses ==
    {[kind |-> "exception"],
     Response(404, TextHtml, BodyHtml),
     Response(200, NoHeader, BodyPdfText),
     Response(200, TextHtml, BodyPdfText),
     Response(200, TextHtmlNamePdf, BodyPdfText),
     Response(200, ApplicationPdf, BodyHtml),
     Response(200, ApplicationPdf, BodyDoctypeBinary),
     Response(200, ApplicationPdf, BodyPdfText)}

\* requests.get(...) and r.raise_for_status() raise.
download_fails(resp) ==
    IF resp.kind = "exception" THEN TRUE ELSE resp.status >= 400

\* r.headers["content-type"] raises KeyError.
header_missing(resp) == resp.content_type = NoHeader

\* any(x.endswith("pdf") for x in content_type.split(";"))
WholeHeaderEndsWithPdf(resp) ==
    EndsWith(resp.content_type, <<"p", "d", "f">>)
content_type_pdf(resp) ==
    LET tokens == Split(resp.content_type, {";"})
    IN \E k \in 1..Len(tokens) : EndsWith(tokens[k], <<"p", "d", "f">>)

\* content.decode("utf-8") raises UnicodeDecodeError
decode_fails(content) == \E k \in 1..Len(content) : content[k] = Invalid

\* content.decode("utf-8").startswith("<!DOCTYPE html>"), False when the
\* decoding raises
looks_html(content) == ~decode_fails(content) /\ StartsWith(content, Doctype)

\* The folder and the bookmark the loops are at.
Folder == sorted_folders[fi]
Bookmark == bookmarks[Folder][bi]
Title == Bookmark[1]
Link == Bookmark[2]
PdfPath == pdf_path(Folder, Title)

\* The inputs: an index the extractor can build from at most MaxBookmarks
\* anchors, the flags, and an output directory with at most MaxExisting
\* files of an earlier run.
FolderKeys == {<<>>, KeyAB}
Titles == {Doc1, Doc2}
Anchors == {<<Doc1, HrefA>>, <<Doc2, HrefB>>}
Entries == {<<k, a[1], a[2]>> : k \in FolderKeys, a \in Anchors}

RECURSIVE BuildIndex(_)
BuildIndex(s) ==
    IF s = <<>> THEN EmptyDict
    ELSE LET e == s[Len(s)]
         IN DictAppend(BuildIndex(SubSeq(s, 1, Len(s) - 1)), e[1], <<e[2], e[3]>>)

IndexInputs ==
    {BuildIndex(s) : s \in UNION {[1..k -> Entries] : k \in 0..MaxBookmarks}}

\* dont_verify only sets the verify argument of the GET request.
ArgsInputs ==
    [try_all : BOOLEAN, show_pdfs : BOOLEAN, show_non_pdfs : BOOLEAN,
     ignore_errors : BOOLEAN, dont_verify : {FALSE}]

OldBytes == <<"o", "l", "d">>
DirInputs == {{}, {Output}, makedirs({Output}, join(Output, KeyAB))}

PathsIn(d) ==
    {pdf_path(k, ti) : k \in {x \in FolderKeys : isdir(d, subfolder_path(x))},
                       ti \in Titles}

FileInputs(d) ==
    {[q \in S |-> OldBytes] :
        S \in {X \in SUBSET PathsIn(d) : Cardinality(X) <= MaxExisting}}

Init ==
    /\ pc = "sort"
    /\ bookmarks \in IndexInputs
    /\ args \in ArgsInputs
    /\ dirs \in DirInputs
    /\ files \in FileInputs(dirs)
    /\ sorted_folders = <<>>
    /\ fi = 1
    /\ bi = 1
    /\ on_bookmark = 0
    /\ errors = <<>>
    /\ r = NoResponse
    /\ raised = ""
    /\ gets = <<>>
    /\ writes = <<>>
    /\ listed = <<>>
    /\ UrlIdle /\ NameIdle /\ ExtractIdle

inputVars == <<bookmarks, args, urlVars, nameVars, extractVars>>

\* Line 73.
SortFolders ==
    /\ pc = "sort"
    /\ sorted_folders' = sorted(DOMAIN bookmarks)
    /\ pc' = "mode"
    /\ UNCHANGED <<inputVars, dirs, files, fi, bi, on_bookmark, errors, r,
                   raised, gets, writes, listed>>

\* The (title, link) pairs of a folder that lines 78-79 select.
RECURSIVE Selected(_, _)
Selected(a, entries) ==
    IF entries = <<>> THEN <<>>
    ELSE IF \/ a.show_pdfs /\ is_url_pdf(Head(entries)[2])
            \/ a.show_non_pdfs /\ ~is_url_pdf(Head(entries)[2])
         THEN <<Head(entries)>> \o Selected(a, Tail(entries))
         ELSE Selected(a, Tail(entries))

RECURSIVE ListFrom(_, _, _)
ListFrom(a, index, keys) ==
    IF keys = <<>> THEN <<>>
    ELSE Selected(a, index[Head(keys)]) \o ListFrom(a, index, Tail(keys))

\* Lines 74-80: the listing, which ends the run.
List ==
    /\ pc = "mode"
    /\ listing(args)
    /\ listed' = ListFrom(args, bookmarks, sorted_folders)
    /\ pc' = "done"
    /\ UNCHANGED <<inputVars, dirs, files, sorted_folders, fi, bi, on_bookmark,
                   errors, r, raised, gets, writes>>

\* Lines 82-83.
NotADirectory ==
    /\ pc = "mode"
    /\ ~listing(args)
    /\ ~isdir(dirs, Output)
    /\ raised' = "ValueError"
    /\ pc' = "aborted"
    /\ UNCHANGED <<inputVars, dirs, files, sorted_folders, fi, bi, on_bookmark,
                   errors, r, gets, writes, listed>>

\* Lines 84-87.
StartDownload ==
    /\ pc = "mode"
    /\ ~listing(args)
    /\ isdir(dirs, Output)
    /\ errors' = <<>>
    /\ on_bookmark' = 0
    /\ fi' = 1
    /\ pc' = "folder"
    /\ UNCHANGED <<inputVars, dirs, files, sorted_folders, bi, r, raised, gets,
                   writes, listed>>

\* Lines 88-92: the next folder, its sub-directory made if it is missing.
EnterFolder ==
    /\ pc = "folder"
    /\ fi <= Len(sorted_folders)
    /\ dirs' = IF isdir(dirs, subfolder_path(Folder)) THEN dirs
               ELSE makedirs(dirs, subfolder_path(Folder))
    /\ bi' = 1
    /\ pc' = "bookmark"
    /\ UNCHANGED <<inputVars, files, sorted_folders, fi, on_bookmark, errors, r,
                   raised, gets, writes, listed>>

\* Lines 94-95.
SkipUrl ==
    /\ pc = "bookmark"
    /\ bi <= Len(bookmarks[Folder])
    /\ skips_url(args, Link)
    /\ bi' = bi + 1
    /\ UNCHANGED <<inputVars, pc, dirs, files, sorted_folders, fi, on_bookmark,
                   errors, r, raised, gets, writes, listed>>

\* Lines 96-100.
AlreadyHave ==
    /\ pc = "bookmark"
    /\ bi <= Len(bookmarks[Folder])
    /\ ~skips_url(args, Link)
    /\ isfile(files, PdfPath)
    /\ on_bookmark' = on_bookmark + 1
    /\ bi' = bi + 1
    /\ UNCHANGED <<inputVars, pc, dirs, files, sorted_folders, fi, errors, r,
                   raised, gets, writes, listed>>

\* Lines 96-112: the GET request and what comes back.
Get ==
    /\ pc = "bookmark"
    /\ bi <= Len(bookmarks[Folder])
    /\ ~skips_url(args, Link)
    /\ ~isfile(files, PdfPath)
    /\ on_bookmark' = on_bookmark + 1
    /\ gets' = Append(gets, [link |-> Link, verify |-> ~args.dont_verify,
                             path |-> PdfPath, at |-> <<fi, bi>>])
    /\ r' \in Responses
    /\ pc' = "response"
    /\ UNCHANGED <<inputVars, dirs, files, sorted_folders, fi, bi, errors,
                   raised, writes, listed>>

\* record_error(msg); continue (lines 102-106).
RecordError(msg) ==
    /\ IF raises(args)
       THEN /\ raised' = "ValueError"
            /\ pc' = "aborted"
            /\ UNCHANGED <<errors, bi>>
       ELSE /\ errors' = Append(errors, <<msg, Link, Title>>)
            /\ bi' = bi + 1
            /\ pc' = "bookmark"
            /\ UNCHANGED raised
    /\ r' = NoResponse
    /\ UNCHANGED <<inputVars, dirs, files, sorted_folders, fi, on_bookmark, gets,
                   writes, listed>>

\* Lines 113-115.
DownloadException ==
    /\ pc = "response"
    /\ download_fails(r)
    /\ RecordError(<<"Download Exception">>)

\* Line 117, when the response has no content-type header: the KeyError is
\* caught nowhere.
MissingContentType ==
    /\ pc = "response"
    /\ ~download_fails(r)
    /\ header_missing(r)
    /\ raised' = "KeyError"
    /\ pc' = "aborted"
    /\ r' = NoResponse
    /\ UNCHANGED <<inputVars, dirs, files, sorted_folders, fi, bi, on_bookmark,
                   errors, gets, writes, listed>>

\* Lines 117-120.
NonPdfContentType ==
    /\ pc = "response"
    /\ ~download_fails(r)
    /\ ~header_missing(r)
    /\ ~content_type_pdf(r)
    /\ RecordError(<<"Non PDF content type", r.content_type>>)

\* Lines 122-128.
HtmlBody ==
    /\ pc = "response"
    /\ ~download_fails(r)
    /\ ~header_missing(r)
    /\ content_type_pdf(r)
    /\ looks_html(r.content)
    /\ RecordError(<<"Appeared to get an HTML file", PdfPath, Link>>)

\* Lines 129-133.
WriteFile ==
    /\ pc = "response"
    /\ ~download_fails(r)
    /\ ~header_missing(r)
    /\ content_type_pdf(r)
    /\ ~looks_html(r.content)
    /\ files' = write_file(files, PdfPath, r.content)
    /\ writes' = Append(writes, [path |-> PdfPath, get |-> Len(gets)])
    /\ bi' = bi + 1
    /\ r' = NoResponse
    /\ pc' = "bookmark"
    /\ UNCHANGED <<inputVars, dirs, sorted_folders, fi, on_bookmark, errors,
                   raised, gets, listed>>

\* The loop over the bookmarks of the folder ends.
LeaveFolder ==
    /\ pc = "bookmark"
    /\ bi > Len(bookmarks[Folder])
    /\ fi' = fi + 1
    /\ pc' = "folder"
    /\ UNCHANGED <<inputVars, dirs, files, sorted_folders, bi, on_bookmark,
                   errors, r, raised, gets, writes, listed>>

\* Lines 135-137: the loop over the folders ends, the errors are printed.
Finish ==
    /\ pc = "folder"
    /\ fi > Len(sorted_folders)
    /\ pc' = "done"
    /\ UNCHANGED <<inputVars, dirs, files, sorted_folders, fi, bi, on_bookmark,
                   errors, r, raised, gets, writes, listed>>

Next ==
    \/ SortFolders
    \/ List
    \/ NotADirectory
    \/ StartDownload
    \/ EnterFolder
    \/ SkipUrl
    \/ AlreadyHave
    \/ Get
    \/ DownloadException
    \/ MissingContentType
    \/ NonPdfContentType
    \/ HtmlBody
    \/ WriteFile
    \/ LeaveFolder
    \/ Finish

Spec == Init /\ [][Next]_vars

(***************************************************************************)
(* Properties of the download driver.                                      *)
(***************************************************************************)
\* The driver is at a bookmark of the current folder.
AtBookmark == pc = "bookmark" /\ bi <= Len(bookmarks[Folder])

HasNoFiles == DOMAIN files = {}

(***************************************************************************)
(* C1.  A bookmark whose destination path already holds a file when it is  *)
(* reached causes no GET request and leaves every file as it is, whatever  *)
(* --ignore-errors and --try-all are.                                      *)
(***************************************************************************)
C1_ExistingFileSkipped ==
    [][(AtBookmark /\ PdfPath \in DOMAIN files) =>
           /\ gets' = gets
           /\ files' = files
           /\ writes' = writes
           /\ r' = NoResponse
           /\ pc' = "bookmark"
           /\ bi' = bi + 1]_vars

\* A run that passed over a bookmark because of a file of an earlier run,
\* and fetched another one.
C1_Witness ==
    /\ pc = "done"
    /\ writes = <<>>
    /\ gets # <<>>
    /\ on_bookmark > Len(gets)
    /\ \E q \in DOMAIN files : files[q] = OldBytes

(***************************************************************************)
(* C2.  With --ignore-errors no failure of a fetched bookmark ends the     *)
(* run: every bookmark a GET was issued for ends with its file written or  *)
(* with one entry added to the error list, so the entries and the files    *)
(* written add up to the GET requests.                                     *)
(***************************************************************************)
C2_TolerantNeverAborts ==
    (args.ignore_errors /\ gets # <<>>) =>
        /\ pc # "aborted"
        /\ pc # "response" => Len(errors) + Len(writes) = Len(gets)

(***************************************************************************)
(* C3.  Without --ignore-errors the first failed download ends the run:    *)
(* nothing is fetched or written after it, its own file is not written,    *)
(* the error list stays empty, and the files written before it remain.     *)
(***************************************************************************)
C3_StrictAbortsAtFirstError ==
    ~args.ignore_errors =>
        /\ errors = <<>>
        /\ pc \notin {"aborted", "response"} => Len(writes) = Len(gets)
        /\ (pc = "aborted" /\ gets # <<>>) =>
              /\ Len(writes) = Len(gets) - 1
              /\ gets[Len(gets)].path \notin DOMAIN files
              /\ \A k \in 1..Len(writes) :
                    /\ writes[k].get = k
                    /\ writes[k].path \in DOMAIN files
              /\ ~ENABLED Next

\* A strict run ended by a recorded error after a file was written, with
\* bookmarks left over.
C3_Witness ==
    /\ ~args.ignore_errors
    /\ pc = "aborted"
    /\ raised = "ValueError"
    /\ writes # <<>>
    /\ fi < Len(sorted_folders) \/ bi < Len(bookmarks[Folder])

(***************************************************************************)
(* C4.  As claimed: when output is not a directory the run aborts with an  *)
(* error whatever the flags are, the listing flags included, before any    *)
(* directory is made, any GET is issued or any file is written.            *)
(* As amended (C4_OutputChecked): this holds when neither --show-pdfs nor  *)
(* --show-non-pdfs is given; with one of them the output is not looked at  *)
(* and the run lists the bookmarks and ends without an error.              *)
(***************************************************************************)
AbortedUntouched ==
    /\ pc = "aborted"
    /\ raised = "ValueError"
    /\ dirs = {}
    /\ HasNoFiles
    /\ gets = <<>>
    /\ writes = <<>>

C4_AsClaimed ==
    (Output \notin dirs /\ pc \notin {"sort", "mode"}) => AbortedUntouched

C4_OutputChecked ==
    pc \notin {"sort", "mode"} =>
        /\ (Output \notin dirs /\ ~args.show_pdfs /\ ~args.show_non_pdfs)
              => AbortedUntouched
        /\ (args.show_pdfs \/ args.show_non_pdfs) =>
              /\ pc = "done"
              /\ raised = ""
              /\ gets = <<>>
              /\ writes = <<>>

C4_Witness ==
    /\ pc = "aborted"
    /\ Output \notin dirs
    /\ args.ignore_errors
    /\ args.try_all
    /\ DOMAIN bookmarks # {}

(***************************************************************************)
(* C8.  A file is written at the destination path exactly when the GET     *)
(* returned a success status without an exception, the content-type header *)
(* split on ";" has a token ending in "pdf", and the body either does not  *)
(* decode as UTF-8 or does not start with "<!DOCTYPE html>"; the bytes     *)
(* written are the body.  Otherwise no file is created at that path.       *)
(***************************************************************************)
PdfSuffix == <<"p", "d", "f">>

\* Some token of the header, cut at every ";", ends in "pdf".
HasPdfToken(ct) ==
    \E j \in 3..Len(ct) :
        /\ SubSeq(ct, j - 2, j) = PdfSuffix
        /\ j = Len(ct) \/ ct[j + 1] = ";"

Accepted(resp) ==
    IF resp.kind # "response" THEN FALSE
    ELSE /\ resp.status \in 200..299
         /\ resp.content_type # NoHeader
         /\ HasPdfToken(resp.content_type)
         /\ \/ \E k \in 1..Len(resp.content) : resp.content[k] = Invalid
            \/ ~StartsWith(resp.content, Doctype)

C9_HeuristicFilter ==
    [][/\ gets' # gets => AtBookmark
       /\ (AtBookmark /\ ~args.try_all /\ ~LooksLikePdf(Link)) =>
              /\ gets' = gets
              /\ files' = files
              /\ writes' = writes
              /\ errors' = errors
              /\ pc' = "bookmark"
              /\ bi' = bi + 1
       /\ (AtBookmark /\ args.try_all /\ PdfPath \notin DOMAIN files) =>
              /\ Len(gets') = Len(gets) + 1
              /\ gets'[Len(gets')].link = Link
              /\ gets'[Len(gets')].path = PdfPath
       /\ (writes' # writes /\ ~args.try_all) =>
              /\ pc = "response"
              /\ LooksLikePdf(Link)]_vars

\* line 84
total_booksmarks ==
    LET RECURSIVE Sum(_)
        Sum(S) == IF S = {} THEN 0
                  ELSE LET k == CHOOSE x \in S : TRUE
                       IN Len(bookmarks[k]) + Sum(S \ {k})
    IN Sum(DOMAIN bookmarks)

\* A run without --try-all that passed over a bookmark and wrote a file.
C9_Witness ==
    /\ pc = "done"
    /\ ~args.try_all
    /\ writes # <<>>
    /\ HasNoFiles \/ \A q \in DOMAIN files : files[q] # OldBytes
    /\ on_bookmark < total_booksmarks

(***************************************************************************)
(* C10.  In one run every destination path is written at most once: the    *)
(* folders are visited in sorted key order and the bookmarks in document   *)
(* order, and a bookmark whose path was written earlier in the run is not  *)
(* fetched again.                                                          *)
(***************************************************************************)
\* a comes before b in the order of the code points.
LexLess(a, b) ==
    \E k \in 0..Len(a) :
        /\ k <= Len(b)
        /\ SubSeq(a, 1, k) = SubSeq(b, 1, k)
        /\ \/ k = Len(a) /\ k < Len(b)
           \/ k < Len(a) /\ k < Len(b) /\ Ord(a[k + 1]) < Ord(b[k + 1])

PositionBefore(x, y) == x[1] < y[1] \/ (x[1] = y[1] /\ x[2] < y[2])

C10_WrittenAtMostOnce ==
    /\ \A i \in 1..Len(writes) : \A j \in 1..Len(writes) :
          i < j => writes[i].path # writes[j].path
    /\ \A i \in 1..Len(gets) : \A k \in 1..Len(writes) :
          writes[k].get < i => writes[k].path # gets[i].path
    /\ \A i \in 1..Len(gets) : \A j \in 1..Len(gets) :
          i < j => PositionBefore(gets[i].at, gets[j].at)
    /\ pc # "sort" =>
          /\ {sorted_folders[i] : i \in 1..Len(sorted_folders)} = DOMAIN bookmarks
          /\ \A i \in 1..Len(sorted_folders) : \A j \in 1..Len(sorted_folders) :
                i < j => LexLess(sorted_folders[i], sorted_folders[j])

\* Two bookmarks of one folder with one title: the first was written and
\* the second passed over.
C10_Witness ==
    /\ pc = "done"
    /\ Len(sorted_folders) = 2
    /\ on_bookmark > Len(gets)
    /\ \A q \in DOMAIN files : files[q] # OldBytes
    /\ \E key \in DOMAIN bookmarks : \E i \in 1..Len(bookmarks[key]) :
          \E j \in 1..Len(bookmarks[key]) : \E k \in 1..Len(writes) :
              /\ i < j
              /\ bookmarks[key][i][1] = bookmarks[key][j][1]
              /\ writes[k].path = pdf_path(key, bookmarks[key][i][1])
              /\ gets[writes[k].get].at = <<1, i>> \/ gets[writes[k].get].at = <<2, i>>

====
